---- MODULE Spec2Model ----
(***************************************************************************)
(* A model of the IMU live readout (app-source/IMU_Live/IMU_Live.py) and   *)
(* of the shared status bar it draws (lib/hydra/statusbar.py).             *)
(*                                                                         *)
(* The program is one sequential control loop.  pc is the position of      *)
(* main(); every action is one step of main() between two interactions     *)
(* with a collaborator (bus, keyboard, display, clock, battery).  What the *)
(* collaborators answer is drawn with \E from small sets.  Strings are     *)
(* sequences of one-character strings, so that formatting, joining and     *)
(* truncating are computed and not assumed.                                *)
(***************************************************************************)
EXTENDS Integers, Sequences, FiniteSets, TLC

(***************************************************************************)
(* Bounds of the model.                                                    *)
(***************************************************************************)
\* Iterations of the polling loop that one behaviour follows.
MaxTicks == 3
\* Battery levels the battery source may report: 0..MaxLevel.
MaxLevel == 1

(***************************************************************************)
(* Program constants (IMU_Live.py lines 23-38).                            *)
(***************************************************************************)
MPU_PWR_MGMT_1 == 107
MPU_ACCEL_XOUT_H == 59
\* MPU_ADDRESSES in the other order.
MPU_ADDRESSES_Swapped == <<105, 104>>
MPU_ADDRESSES == <<104, 105>>
ACCEL_SCALE == 16384
GYRO_SCALE == 131
MAX_ERROR_CHARS == 28
\* bytearray(14) of MPUReader.__init__
BUFFER_LEN == 14
\* time.sleep_ms(100) of MPUReader.__init__
WAKE_DELAY_MS == 100

None == [none |-> TRUE]

(***************************************************************************)
(* Strings.                                                                *)
(***************************************************************************)
HexDigits == <<"0", "1", "2", "3", "4", "5", "6", "7",
               "8", "9", "A", "B", "C", "D", "E", "F">>

\* f"{n:02d}" for 0 <= n: at least two decimal digits, zero padded.
RECURSIVE DecDigits(_)
DecDigits(n) == IF n < 10 THEN <<HexDigits[n + 1]>>
                ELSE DecDigits(n \div 10) \o <<HexDigits[(n % 10) + 1]>>

Fmt02d(n) == IF n < 10 THEN <<"0">> \o DecDigits(n) ELSE DecDigits(n)

\* f"{n:X}" for 0 <= n.
RECURSIVE HexUpper(_)
HexUpper(n) == IF n < 16 THEN <<HexDigits[n + 1]>>
               ELSE HexUpper(n \div 16) \o <<HexDigits[(n % 16) + 1]>>

\* f"0x{d:02X}"
FmtAddr(d) == <<"0", "x">> \o (IF d < 16 THEN <<"0">> \o HexUpper(d) ELSE HexUpper(d))

\* sep.join(parts)
RECURSIVE Join(_, _)
Join(sep, parts) ==
    IF Len(parts) = 0 THEN <<>>
    ELSE IF Len(parts) = 1 THEN parts[1]
    ELSE parts[1] \o sep \o Join(sep, Tail(parts))

\* s[:n]
Truncate(s, n) == IF Len(s) <= n THEN s ELSE SubSeq(s, 1, n)

StrI2CInitFailed ==
    <<"I", "2", "C", " ", "i", "n", "i", "t", " ", "f", "a", "i", "l", "e", "d", ":", " ">>
StrI2CScanFailed ==
    <<"I", "2", "C", " ", "s", "c", "a", "n", " ", "f", "a", "i", "l", "e", "d", ":", " ">>
StrNoDevices ==
    <<"N", "o", " ", "I", "2", "C", " ", "d", "e", "v", "i", "c", "e", "s", " ",
      "f", "o", "u", "n", "d">>
StrNoMpu ==
    <<"N", "o", " ", "M", "P", "U", " ", "f", "o", "u", "n", "d", ".", " ",
      "D", "e", "v", "i", "c", "e", "s", ":", " ">>
StrTimeUnknown == <<"-", "-", ":", "-", "-">>

(***************************************************************************)
(* lib/hydra/statusbar.py                                                  *)
(*                                                                         *)
(* A status bar is the record of the fields of StatusBar.  battery and     *)
(* battery_icon are TRUE when the optional import of the constructor       *)
(* found the module, FALSE when the field is None.  A display call is a    *)
(* record naming the operation, the region of the bar it falls in ("time": *)
(* x 0..60, "batt": x width-30..width) and what it draws.                  *)
(***************************************************************************)
NoLevel == -1

\* StatusBar.__init__
StatusBarInit(height, use_12h, battery, battery_icon) ==
    [height |-> height, use_12h |-> use_12h,
     last_time_str |-> <<>>, last_batt_level |-> NoLevel,
     battery |-> battery, battery_icon |-> battery_icon]

\* The clock's answer: time.localtime() raised, or (hour, minute).
\* The battery's answer: read_level() raised, or a level.
Clocks == {[ok |-> FALSE, hour |-> 0, minute |-> 0],
           [ok |-> TRUE, hour |-> 0, minute |-> 7],
           [ok |-> TRUE, hour |-> 13, minute |-> 7]}
Levels == 0..MaxLevel
BattReads == {[ok |-> FALSE, level |-> 0]} \cup {[ok |-> TRUE, level |-> l] : l \in Levels}

\* draw, lines 62-77
SBTimeStr(s, clock) ==
    IF ~clock.ok THEN StrTimeUnknown
    ELSE LET hour == IF s.use_12h
                     THEN (IF clock.hour = 0 THEN 12
                           ELSE IF clock.hour > 12 THEN clock.hour - 12
                           ELSE clock.hour)
                     ELSE clock.hour
         IN  Fmt02d(hour) \o <<":">> \o Fmt02d(clock.minute)

\* draw, lines 93-100
SBBattLevel(s, batt) ==
    IF s.battery /\ batt.ok THEN batt.level ELSE NoLevel

FillRect(region) == [op |-> "fill_rect", region |-> region, text |-> <<>>, level |-> NoLevel]
Text(region, str) == [op |-> "text", region |-> region, text |-> str, level |-> NoLevel]
LevelText(region, l) ==
    [op |-> "text", region |-> region, text |-> DecDigits(l) \o <<"%">>, level |-> l]
Bitmap(region, l) == [op |-> "bitmap", region |-> region, text |-> <<>>, level |-> l]
BitmapRaised(region, l) ==
    [op |-> "bitmap_raised", region |-> region, text |-> <<>>, level |-> l]

\* The time region drawn without the comparison with the cached string.
SBTimeCallsAlways(s, time_str) == <<FillRect("time"), Text("time", time_str)>>

\* draw, lines 79-91: the calls of the time region
SBTimeCalls(s, time_str) ==
    IF time_str # s.last_time_str
    THEN <<FillRect("time"), Text("time", time_str)>>
    ELSE <<>>

\* draw, lines 102-131: the calls of the battery region
SBBattCalls(s, batt_level, bitmapOk) ==
    IF batt_level # s.last_batt_level
    THEN <<FillRect("batt")>> \o
         (IF batt_level >= 0 /\ s.battery_icon
          THEN (IF bitmapOk THEN <<Bitmap("batt", batt_level)>>
                ELSE <<BitmapRaised("batt", batt_level), LevelText("batt", batt_level)>>)
          ELSE IF batt_level >= 0 THEN <<LevelText("batt", batt_level)>>
          ELSE <<>>)
    ELSE <<>>

\* draw changed to repaint both regions as soon as either candidate changed.
StatusBarDrawAll(s, clock, batt, bitmapOk) ==
    LET time_str == SBTimeStr(s, clock)
        batt_level == SBBattLevel(s, batt)
        dirty == time_str # s.last_time_str \/ batt_level # s.last_batt_level
        stale == [s EXCEPT !.last_time_str = <<>>, !.last_batt_level = NoLevel - 1]
    IN  [sb |-> [s EXCEPT !.last_time_str = time_str, !.last_batt_level = batt_level],
         time_str |-> time_str,
         batt_level |-> batt_level,
         calls |-> IF dirty
                   THEN SBTimeCalls(stale, time_str) \o SBBattCalls(stale, batt_level, bitmapOk)
                   ELSE <<>>]

\* StatusBar.draw: the bar after the call and the display calls it issued.
StatusBarDraw(s, clock, batt, bitmapOk) ==
    LET time_str == SBTimeStr(s, clock)
        batt_level == SBBattLevel(s, batt)
    IN  [sb |-> [s EXCEPT !.last_time_str =
                              IF time_str # s.last_time_str THEN time_str ELSE @,
                          !.last_batt_level =
                              IF batt_level # s.last_batt_level THEN batt_level ELSE @],
         time_str |-> time_str,
         batt_level |-> batt_level,
         calls |-> SBTimeCalls(s, time_str) \o SBBattCalls(s, batt_level, bitmapOk)]

(***************************************************************************)
(* The display surface: what each region of the screen shows.  bg is the   *)
(* colour the region was last cleared with ("app": palette[2] of main,     *)
(* "bar": palette[1] of the status bar).                                   *)
(***************************************************************************)
BlankBody == [kind |-> "blank", msg |-> <<>>]

\* display.fill(bg_color) of main: the whole screen, the bar included
DisplayFill(s) ==
    [time |-> [bg |-> "app", text |-> <<>>],
     batt |-> [bg |-> "app", level |-> NoLevel],
     body |-> BlankBody]

\* display.fill_rect(0, status_bar.height, width, height - status_bar.height, bg)
DisplayClearBody(s) == [s EXCEPT !.body = BlankBody]

ApplyCall(s, c) ==
    IF c.region = "time"
    THEN (IF c.op = "fill_rect" THEN [s EXCEPT !.time = [bg |-> "bar", text |-> <<>>]]
          ELSE IF c.op = "text" THEN [s EXCEPT !.time.text = c.text]
          ELSE s)
    ELSE (IF c.op = "fill_rect" THEN [s EXCEPT !.batt = [bg |-> "bar", level |-> NoLevel]]
          ELSE IF c.op \in {"text", "bitmap"} THEN [s EXCEPT !.batt.level = c.level]
          ELSE s)

RECURSIVE ApplyCalls(_, _)
ApplyCalls(s, cs) ==
    IF cs = <<>> THEN s ELSE ApplyCalls(ApplyCall(s, Head(cs)), Tail(cs))

(***************************************************************************)
(* app-source/IMU_Live/IMU_Live.py: MPUReader                              *)
(*                                                                         *)
(* A bus transaction is a record: the operation ("scan", "write", "read"), *)
(* the device address and register it names, the number of bytes it moves  *)
(* and whether the bus completed it.                                       *)
(***************************************************************************)
BusScan(ok) == [op |-> "scan", addr |-> 0, reg |-> 0, n |-> 0, val |-> 0, ok |-> ok]
BusWrite(addr, reg, val, ok) ==
    [op |-> "write", addr |-> addr, reg |-> reg, n |-> 1, val |-> val, ok |-> ok]
BusRead(addr, reg, n, ok) ==
    [op |-> "read", addr |-> addr, reg |-> reg, n |-> n, val |-> 0, ok |-> ok]

ZeroBuffer == [i \in 1..BUFFER_LEN |-> 0]

\* __init__ without the delay after the wake-up write.
MPUReaderInitNoDelay(address, writeOk) ==
    [raised |-> ~writeOk,
     txns |-> <<BusWrite(address, MPU_PWR_MGMT_1, 0, writeOk)>>,
     slept |-> 0,
     mpu |-> [none |-> FALSE, address |-> address, buffer |-> ZeroBuffer]]

\* MPUReader.__init__: the transactions it issues, whether it slept the
\* wake-up delay, and the reader it leaves, or that it raised RuntimeError.
MPUReaderInit(address, writeOk) ==
    [raised |-> ~writeOk,
     txns |-> <<BusWrite(address, MPU_PWR_MGMT_1, 0, writeOk)>>,
     slept |-> IF writeOk THEN WAKE_DELAY_MS ELSE 0,
     mpu |-> [none |-> FALSE, address |-> address, buffer |-> ZeroBuffer]]

\* _bytes_to_int16 with the sign test off by one.
BytesToInt16OffByOne(high_byte, low_byte) ==
    LET value == high_byte * 256 + low_byte
    IN  IF value > 32768 THEN value - 65536 ELSE value

\* _bytes_to_int16 with the subtraction the other way round.
BytesToInt16Magnitude(high_byte, low_byte) ==
    LET value == high_byte * 256 + low_byte
    IN  IF value >= 32768 THEN 65536 - value ELSE value

\* MPUReader._bytes_to_int16
BytesToInt16(high_byte, low_byte) ==
    LET value == high_byte * 256 + low_byte
    IN  IF value >= 32768 THEN value - 65536 ELSE value

\* The decode with the gyro pairs taken right behind the accel pairs.
DecodeBufferNoTempSkip(b) ==
    <<BytesToInt16(b[1], b[2]), BytesToInt16(b[3], b[4]), BytesToInt16(b[5], b[6]),
      BytesToInt16(b[7], b[8]), BytesToInt16(b[9], b[10]), BytesToInt16(b[11], b[12])>>

\* The six readings decoded from a buffer (buffer[k] of the code is b[k + 1]).
DecodeBuffer(b) ==
    <<BytesToInt16(b[1], b[2]), BytesToInt16(b[3], b[4]), BytesToInt16(b[5], b[6]),
      BytesToInt16(b[9], b[10]), BytesToInt16(b[11], b[12]), BytesToInt16(b[13], b[14])>>

\* read_raw_data changed to try the transaction a second time when it fails.
ReadRawDataRetries(m, ok, block) ==
    [txns |-> IF ok THEN <<BusRead(m.address, MPU_ACCEL_XOUT_H, Len(m.buffer), TRUE)>>
              ELSE <<BusRead(m.address, MPU_ACCEL_XOUT_H, Len(m.buffer), FALSE),
                     BusRead(m.address, MPU_ACCEL_XOUT_H, Len(m.buffer), TRUE)>>,
     mpu |-> [m EXCEPT !.buffer = block],
     result |-> [none |-> FALSE, raw |-> DecodeBuffer(block)]]

\* MPUReader.read_raw_data: one readfrom_mem_into of the whole buffer; block is
\* what the device answers, ok whether the transaction completed.
ReadRawData(m, ok, block) ==
    [txns |-> <<BusRead(m.address, MPU_ACCEL_XOUT_H, Len(m.buffer), ok)>>,
     mpu |-> IF ok THEN [m EXCEPT !.buffer = block] ELSE m,
     result |-> IF ok THEN [none |-> FALSE, raw |-> DecodeBuffer(block)] ELSE None]

\* A float quotient raw / scale, kept exact as numerator and denominator.
Quot(raw, scale) == [num |-> raw, den |-> scale]

\* MPUReader.read_scaled_data
ReadScaledData(m, ok, block) ==
    LET r == ReadRawData(m, ok, block)
    IN  [txns |-> r.txns,
         mpu |-> r.mpu,
         result |-> IF r.result = None THEN None
                    ELSE [none |-> FALSE,
                          scaled |-> <<Quot(r.result.raw[1], ACCEL_SCALE),
                                       Quot(r.result.raw[2], ACCEL_SCALE),
                                       Quot(r.result.raw[3], ACCEL_SCALE),
                                       Quot(r.result.raw[4], GYRO_SCALE),
                                       Quot(r.result.raw[5], GYRO_SCALE),
                                       Quot(r.result.raw[6], GYRO_SCALE)>>]]

\* Register blocks the device may answer with.
Blocks == {<<127, 255, 128, 0, 255, 255, 18, 52, 0, 0, 0, 1, 64, 0>>,
           <<0, 0, 0, 0, 64, 0, 13, 128, 255, 125, 0, 131, 128, 1>>}

\* What i2c.scan() may return: the responding addresses, ascending.
ScanResults == {<<>>, <<16>>, <<104>>, <<105>>, <<16, 32>>, <<16, 104>>,
                <<104, 105>>, <<16, 104, 105>>}

\* str(e) of the exception an I2C call raised.
ExcMsgs == {<<"E", "I", "O">>,
            <<"[", "E", "r", "r", "n", "o", " ", "1", "1", "6", "]", " ",
              "E", "T", "I", "M", "E", "D", "O", "U", "T">>}

\* What kb.get_new_keys() may return.
KeySets == {{}, {"ENT"}, {"G0"}}

Contains(seq, x) == \E i \in 1..Len(seq) : seq[i] = x

\* The reason changed to name only the first device found.
NoMpuReasonFirstOnly(devs) == StrNoMpu \o FmtAddr(devs[1])

\* try_init_imu, lines 150-152
NoMpuReason(devs) ==
    StrNoMpu \o Join(<<",", " ">>, [i \in 1..Len(devs) |-> FmtAddr(devs[i])])

(***************************************************************************)
(* app-source/IMU_Live/IMU_Live.py: main and try_init_imu                  *)
(***************************************************************************)
VARIABLES
    pc,           \* where main() is
    sb,           \* status_bar
    scr,          \* what the display shows
    calls,        \* the display calls of the last status_bar.draw
    nDraws,       \* status_bar.draw calls so far
    cand,         \* time_str and batt_level of the last status_bar.draw
    i2c,          \* "none" before I2C(...), then "open"
    devices,      \* devices of try_init_imu
    addrIdx,      \* position of the for loop over MPU_ADDRESSES
    mpu,          \* mpu of main
    error,        \* error of main
    bus,          \* every bus transaction of the session, in order
    slept,        \* milliseconds slept after the wake-up write
    discoveries,  \* calls of try_init_imu
    data,         \* data of the polling loop
    keys,         \* keys of the running loop
    iterLog,      \* what the running loop iteration did so far, in order
    ticks,        \* finished iterations of the polling loop
    renderHist    \* what each finished render of the polling loop showed

vars == <<pc, sb, scr, calls, nDraws, cand, i2c, devices, addrIdx, mpu, error, bus,
          slept, discoveries, data, keys, iterLog, ticks, renderHist>>

barVars == <<sb, scr, calls, nDraws, cand>>
busVars == <<i2c, devices, addrIdx, mpu, error, bus, slept, discoveries>>
loopVars == <<data, keys, iterLog, ticks, renderHist>>

\* main, lines 158-163: the state after the constructors
Init ==
    /\ pc = "start"
    /\ \E battery \in BOOLEAN, icon \in BOOLEAN :
           sb = StatusBarInit(16, FALSE, battery, icon)
    /\ scr = [time |-> [bg |-> "none", text |-> <<>>],
              batt |-> [bg |-> "none", level |-> NoLevel],
              body |-> BlankBody]
    /\ calls = <<>>
    /\ nDraws = 0
    /\ cand = [time |-> <<>>, batt |-> NoLevel]
    /\ i2c = "none"
    /\ devices = <<>>
    /\ addrIdx = 0
    /\ mpu = None
    /\ error = None
    /\ bus = <<>>
    /\ slept = 0
    /\ discoveries = 0
    /\ data = None
    /\ keys = {}
    /\ iterLog = <<>>
    /\ ticks = 0
    /\ renderHist = <<>>

\* status_bar.draw(display) on the screen s, then the body kind with msg.
\* read_level() answers only a bar that has a battery source (line 95), and
\* tft.bitmap is only called by a bar that has both the source and the icon
\* (line 111); without them there is one run of draw per clock answer.
BattAnswers(b) == IF b.battery THEN BattReads ELSE {[ok |-> FALSE, level |-> 0]}
BitmapAnswers(b) == IF b.battery /\ b.battery_icon THEN BOOLEAN ELSE {TRUE}

DrawBarOn(s, kind, msg) ==
    \E clock \in Clocks, batt \in BattAnswers(sb), bitmapOk \in BitmapAnswers(sb) :
        LET d == StatusBarDraw(sb, clock, batt, bitmapOk)
        IN  /\ sb' = d.sb
            /\ calls' = d.calls
            /\ nDraws' = nDraws + 1
            /\ cand' = [time |-> d.time_str, batt |-> d.batt_level]
            /\ scr' = [ApplyCalls(s, d.calls) EXCEPT !.body = [kind |-> kind, msg |-> msg]]

StrInitializing ==
    <<"I", "n", "i", "t", "i", "a", "l", "i", "z", "i", "n", "g", " ",
      "I", "M", "U", ".", ".", ".">>
StrReadError == <<"R", "e", "a", "d", " ", "e", "r", "r", "o", "r", "!">>

\* main, lines 170-174
InitScreen ==
    /\ pc = "start"
    /\ DrawBarOn(DisplayFill(scr), "init", StrInitializing)
    /\ pc' = "i2c_init"
    /\ UNCHANGED <<busVars, loopVars>>

\* The failure return with the reason left out: return None, None.
FailNoReason(reason) ==
    /\ mpu' = None
    /\ error' = None
    /\ pc' = "returned"

Fail(reason) ==
    /\ mpu' = None
    /\ error' = [none |-> FALSE, text |-> reason]
    /\ pc' = "returned"

\* I2CInit changed to go on to the scan when I2C(...) raised.
I2CInitIgnoresFailure ==
    /\ pc = "i2c_init"
    /\ discoveries' = discoveries + 1
    /\ \/ i2c' = "open"
       \/ UNCHANGED i2c
    /\ pc' = "scan"
    /\ UNCHANGED <<barVars, loopVars, devices, addrIdx, bus, slept, mpu, error>>

\* main line 176 and try_init_imu, lines 126-130
I2CInit ==
    /\ pc = "i2c_init"
    /\ discoveries' = discoveries + 1
    /\ \/ /\ i2c' = "open"
          /\ pc' = "scan"
          /\ UNCHANGED <<mpu, error>>
       \/ /\ \E e \in ExcMsgs : Fail(StrI2CInitFailed \o e)
          /\ UNCHANGED i2c
    /\ UNCHANGED <<barVars, loopVars, devices, addrIdx, bus, slept>>

\* Scan changed to enter the for loop with an empty scan result too.
ScanNoEmptyCheck ==
    /\ pc = "scan"
    /\ \/ \E devs \in ScanResults :
              /\ bus' = Append(bus, BusScan(TRUE))
              /\ devices' = devs
              /\ addrIdx' = 1
              /\ pc' = "try_addr"
              /\ UNCHANGED <<mpu, error>>
       \/ \E e \in ExcMsgs :
              /\ bus' = Append(bus, BusScan(FALSE))
              /\ Fail(StrI2CScanFailed \o e)
              /\ UNCHANGED <<devices, addrIdx>>
    /\ UNCHANGED <<barVars, loopVars, i2c, slept, discoveries>>

\* try_init_imu, lines 132-139
Scan ==
    /\ pc = "scan"
    /\ \/ \E devs \in ScanResults :
              /\ bus' = Append(bus, BusScan(TRUE))
              /\ devices' = devs
              /\ IF devs = <<>>
                 THEN Fail(StrNoDevices) /\ UNCHANGED addrIdx
                 ELSE /\ addrIdx' = 1
                      /\ pc' = "try_addr"
                      /\ UNCHANGED <<mpu, error>>
       \/ \E e \in ExcMsgs :
              /\ bus' = Append(bus, BusScan(FALSE))
              /\ Fail(StrI2CScanFailed \o e)
              /\ UNCHANGED <<devices, addrIdx>>
    /\ UNCHANGED <<barVars, loopVars, i2c, slept, discoveries>>

\* The for loop without the try/except around MPUReader(...): a rejected
\* handshake ends discovery.
TryAddrAbortsOnReject ==
    /\ pc = "try_addr"
    /\ addrIdx <= Len(MPU_ADDRESSES)
    /\ LET addr == MPU_ADDRESSES[addrIdx]
       IN  IF ~Contains(devices, addr)
           THEN /\ addrIdx' = addrIdx + 1
                /\ UNCHANGED <<pc, mpu, error, bus, slept>>
           ELSE \E writeOk \in BOOLEAN :
                    LET r == MPUReaderInit(addr, writeOk)
                    IN  /\ bus' = bus \o r.txns
                        /\ slept' = r.slept
                        /\ IF r.raised
                           THEN /\ Fail(NoMpuReason(devices))
                                /\ UNCHANGED addrIdx
                           ELSE /\ mpu' = r.mpu
                                /\ error' = None
                                /\ pc' = "returned"
                                /\ UNCHANGED addrIdx
    /\ UNCHANGED <<barVars, loopVars, i2c, devices, discoveries>>

\* try_init_imu, lines 142-148: one pass of the for loop
TryAddr ==
    /\ pc = "try_addr"
    /\ addrIdx <= Len(MPU_ADDRESSES)
    /\ LET addr == MPU_ADDRESSES[addrIdx]
       IN  IF ~Contains(devices, addr)
           THEN /\ addrIdx' = addrIdx + 1
                /\ UNCHANGED <<pc, mpu, error, bus, slept>>
           ELSE \E writeOk \in BOOLEAN :
                    LET r == MPUReaderInit(addr, writeOk)
                    IN  /\ bus' = bus \o r.txns
                        /\ slept' = r.slept
                        /\ IF r.raised
                           THEN /\ addrIdx' = addrIdx + 1
                                /\ UNCHANGED <<pc, mpu, error>>
                           ELSE /\ mpu' = r.mpu
                                /\ error' = None
                                /\ pc' = "returned"
                                /\ UNCHANGED addrIdx
    /\ UNCHANGED <<barVars, loopVars, i2c, devices, discoveries>>

\* try_init_imu, lines 150-152: the for loop ended without a reader
NoMpu ==
    /\ pc = "try_addr"
    /\ addrIdx > Len(MPU_ADDRESSES)
    /\ Fail(NoMpuReason(devices))
    /\ UNCHANGED <<barVars, loopVars, i2c, devices, addrIdx, bus, slept, discoveries>>

\* main, lines 178-185
ErrorScreen ==
    /\ pc = "returned"
    /\ mpu.none
    /\ DrawBarOn(DisplayFill(scr), "error", Truncate(error.text, MAX_ERROR_CHARS))
    /\ pc' = "wait_poll"
    /\ UNCHANGED <<busVars, loopVars>>

\* main, lines 187-190: the waiting loop polls the keys
WaitPoll ==
    /\ pc = "wait_poll"
    /\ \E ks \in KeySets :
           /\ keys' = ks
           /\ iterLog' = Append(iterLog, "poll")
           /\ pc' = IF "G0" \in ks THEN "reset" ELSE "wait_sleep"
    /\ UNCHANGED <<barVars, busVars, data, ticks, renderHist>>

\* WaitSleep changed to start discovery over after the delay.
WaitSleepRetries ==
    /\ pc = "wait_sleep"
    /\ iterLog' = <<>>
    /\ pc' = "i2c_init"
    /\ UNCHANGED <<barVars, busVars, data, keys, ticks, renderHist>>

\* main, line 191: time.sleep_ms(50), and the loop starts over
WaitSleep ==
    /\ pc = "wait_sleep"
    /\ iterLog' = <<>>
    /\ pc' = "wait_poll"
    /\ UNCHANGED <<barVars, busVars, data, keys, ticks, renderHist>>

\* main, lines 178 and 193-194: a reader was found
EnterLoop ==
    /\ pc = "returned"
    /\ ~mpu.none
    /\ pc' = "poll"
    /\ UNCHANGED <<barVars, busVars, loopVars>>

\* PollKeys changed to test for the key label "GO" instead of "G0".
PollKeysWrongLabel ==
    /\ pc = "poll"
    /\ ticks < MaxTicks
    /\ \E ks \in KeySets :
           /\ keys' = ks
           /\ iterLog' = Append(iterLog, "poll")
           /\ pc' = IF "GO" \in ks THEN "reset" ELSE "read"
    /\ UNCHANGED <<barVars, busVars, data, ticks, renderHist>>

\* main, lines 196-200: the polling loop polls the keys
PollKeys ==
    /\ pc = "poll"
    /\ ticks < MaxTicks
    /\ \E ks \in KeySets :
           /\ keys' = ks
           /\ iterLog' = Append(iterLog, "poll")
           /\ pc' = IF "G0" \in ks THEN "reset" ELSE "read"
    /\ UNCHANGED <<barVars, busVars, data, ticks, renderHist>>

\* main, lines 202-203
ReadData ==
    /\ pc = "read"
    /\ \E ok \in BOOLEAN, block \in Blocks :
           LET r == ReadScaledData(mpu, ok, block)
           IN  /\ bus' = bus \o r.txns
               /\ mpu' = r.mpu
               /\ data' = r.result
    /\ iterLog' = Append(iterLog, "read")
    /\ pc' = "render"
    /\ UNCHANGED <<barVars, i2c, devices, addrIdx, error, slept, discoveries,
                   keys, ticks, renderHist>>

\* Render changed to present inside each branch and again after them.
RenderShowsTwice ==
    /\ pc = "render"
    /\ IF ~data.none
       THEN /\ DrawBarOn(DisplayClearBody(scr), "data", <<>>)
            /\ renderHist' = Append(renderHist, "orientation")
       ELSE /\ DrawBarOn(DisplayClearBody(scr), "read_error", StrReadError)
            /\ renderHist' = Append(renderHist, "error")
    /\ iterLog' = iterLog \o <<"draw", "show", "show">>
    /\ pc' = "sleep"
    /\ UNCHANGED <<busVars, data, keys, ticks>>

\* Render changed to skip the frame of a failed read.
RenderSkipsError ==
    /\ pc = "render"
    /\ IF ~data.none
       THEN /\ DrawBarOn(DisplayClearBody(scr), "data", <<>>)
            /\ renderHist' = Append(renderHist, "orientation")
            /\ iterLog' = iterLog \o <<"draw", "show">>
       ELSE /\ UNCHANGED <<barVars, renderHist>>
            /\ iterLog' = iterLog \o <<"show">>
    /\ pc' = "sleep"
    /\ UNCHANGED <<busVars, data, keys, ticks>>

\* main, lines 205-252: the frame of this iteration, then display.show()
Render ==
    /\ pc = "render"
    /\ IF ~data.none
       THEN /\ DrawBarOn(DisplayClearBody(scr), "data", <<>>)
            /\ renderHist' = Append(renderHist, "orientation")
       ELSE /\ DrawBarOn(DisplayClearBody(scr), "read_error", StrReadError)
            /\ renderHist' = Append(renderHist, "error")
    /\ iterLog' = iterLog \o <<"draw", "show">>
    /\ pc' = "sleep"
    /\ UNCHANGED <<busVars, data, keys, ticks>>

\* main, line 253: time.sleep_ms(100), and the loop starts over
Sleep ==
    /\ pc = "sleep"
    /\ ticks' = ticks + 1
    /\ iterLog' = <<>>
    /\ pc' = "poll"
    /\ UNCHANGED <<barVars, busVars, data, keys, renderHist>>

Next ==
    \/ InitScreen
    \/ I2CInit
    \/ Scan
    \/ TryAddr
    \/ NoMpu
    \/ ErrorScreen
    \/ WaitPoll
    \/ WaitSleep
    \/ EnterLoop
    \/ PollKeys
    \/ ReadData
    \/ Render
    \/ Sleep

Spec == Init /\ [][Next]_vars

(***************************************************************************)
(* The status bar alone, drawn again and again by an app with any answers  *)
(* of the clock and the battery (as main does once per frame).             *)
(***************************************************************************)
\* status_bar.draw calls that one behaviour of SpecBar follows.
MaxBarDraws == 3

BarInit ==
    /\ pc = "bar"
    /\ \E use_12h \in BOOLEAN, battery \in BOOLEAN, icon \in BOOLEAN :
           sb = StatusBarInit(16, use_12h, battery, icon)
    /\ scr = [time |-> [bg |-> "none", text |-> <<>>],
              batt |-> [bg |-> "none", level |-> NoLevel],
              body |-> BlankBody]
    /\ calls = <<>>
    /\ nDraws = 0
    /\ cand = [time |-> <<>>, batt |-> NoLevel]
    /\ i2c = "none"
    /\ devices = <<>>
    /\ addrIdx = 0
    /\ mpu = None
    /\ error = None
    /\ bus = <<>>
    /\ slept = 0
    /\ discoveries = 0
    /\ data = None
    /\ keys = {}
    /\ iterLog = <<>>
    /\ ticks = 0
    /\ renderHist = <<>>

\* One status_bar.draw(display)
BarDraw ==
    /\ pc = "bar"
    /\ nDraws < MaxBarDraws
    /\ DrawBarOn(scr, "app", <<>>)
    /\ UNCHANGED <<pc, busVars, loopVars>>

BarNext == BarDraw

SpecBar == BarInit /\ [][BarNext]_vars

(***************************************************************************)
(* The register codec alone: one read_raw_data of a reader, the device     *)
(* answering with any block CodecBlock(h, l, t).  Every high/low pair of   *)
(* a block runs over all 65536 byte pairs, the pairs of one block differ   *)
(* from each other, and the temperature bytes are drawn on their own.      *)
(***************************************************************************)
Bytes == 0..255
TempPairs == {<<0, 0>>, <<18, 52>>}

CodecBlock(h, l, t) ==
    <<h, l, (h + 1) % 256, l, h, (l + 1) % 256, t[1], t[2],
      (h + 2) % 256, l, h, (l + 2) % 256, (h + 3) % 256, (l + 3) % 256>>

CodecInit ==
    /\ pc = "codec"
    /\ sb = StatusBarInit(16, FALSE, FALSE, FALSE)
    /\ scr = [time |-> [bg |-> "none", text |-> <<>>],
              batt |-> [bg |-> "none", level |-> NoLevel],
              body |-> BlankBody]
    /\ calls = <<>>
    /\ nDraws = 0
    /\ cand = [time |-> <<>>, batt |-> NoLevel]
    /\ i2c = "open"
    /\ devices = <<>>
    /\ addrIdx = 0
    /\ mpu = [none |-> FALSE, address |-> MPU_ADDRESSES[1], buffer |-> ZeroBuffer]
    /\ error = None
    /\ bus = <<>>
    /\ slept = 0
    /\ discoveries = 0
    /\ data = None
    /\ keys = {}
    /\ iterLog = <<>>
    /\ ticks = 0
    /\ renderHist = <<>>

\* One mpu.read_raw_data(); data is what it returns.
CodecRead ==
    /\ pc = "codec"
    /\ \E ok \in BOOLEAN, h \in Bytes, l \in Bytes, t \in TempPairs :
           LET r == ReadRawData(mpu, ok, CodecBlock(h, l, t))
           IN  /\ bus' = bus \o r.txns
               /\ mpu' = r.mpu
               /\ data' = r.result
    /\ pc' = "decoded"
    /\ UNCHANGED <<barVars, i2c, devices, addrIdx, error, slept, discoveries,
                   keys, iterLog, ticks, renderHist>>

CodecNext == CodecRead

SpecCodec == CodecInit /\ [][CodecNext]_vars

(***************************************************************************)
(* Properties                                                              *)
(***************************************************************************)
IsRead(t) == t.op = "read"
IsWrite(t) == t.op = "write"
BusReads == SelectSeq(bus, IsRead)
BusWrites == SelectSeq(bus, IsWrite)

\* try_init_imu returned (None, reason): main is at its test of mpu, or in the
\* waiting loop behind it.
DeviceUnavailable ==
    \/ pc = "returned" /\ mpu.none
    \/ pc \in {"wait_poll", "wait_sleep"}

\* C1: once discovery has returned a failure, every step of the app stays in
\* DeviceUnavailable or leaves it by reset on a polled G0; no step issues a
\* bus transaction, none starts discovery again, and no register read was
\* ever issued.
C1_UnavailableIsTerminal ==
    [][DeviceUnavailable =>
          /\ BusReads = <<>>
          /\ bus' = bus
          /\ discoveries' = discoveries
          /\ discoveries = 1
          /\ i2c' = i2c
          /\ mpu'.none
          /\ \/ DeviceUnavailable'
             \/ pc' = "reset" /\ "G0" \in keys']_vars

C1_Witness ==
    /\ pc = "wait_sleep"
    /\ mpu.none
    /\ ~error.none
    /\ scr.body.kind = "error"

\* The polling loop runs: discovery returned a reader and main is inside
\* "while True" of lines 196-253, or has left it by reset.
Polling == ~mpu.none /\ pc \in {"poll", "read", "render", "sleep", "reset"}

\* What a tick must show for the outcome of its read.
OutcomeOf(t) == IF t.ok THEN "orientation" ELSE "error"

\* C2: in the polling loop the renders follow the reads one to one: the i-th
\* finished render is an orientation update when the i-th read succeeded and
\* an error indicator when it failed, a render is pending exactly while main
\* stands between the read and the render, the screen body shows the kind of
\* the last render, and every finished tick has rendered once.
C2_OneRenderPerRead ==
    Polling =>
        LET reads == BusReads
            pending == IF pc = "render" THEN 1 ELSE 0
        IN  /\ Len(renderHist) + pending = Len(reads)
            /\ \A i \in 1..Len(renderHist) : renderHist[i] = OutcomeOf(reads[i])
            /\ Len(renderHist) = ticks + (IF pc = "sleep" THEN 1 ELSE 0)
            /\ Len(renderHist) > 0 =>
                   scr.body.kind = (IF renderHist[Len(renderHist)] = "orientation"
                                    THEN "data" ELSE "read_error")

C2_Witness ==
    /\ pc = "poll"
    /\ ticks = 3
    /\ renderHist = <<"orientation", "error", "orientation">>
    /\ Len(BusReads) = 3
    /\ BusReads[1].ok /\ ~BusReads[2].ok /\ BusReads[3].ok

\* Calls of read_scaled_data so far: one per finished tick, and the one of
\* the running tick once main is past line 203.
ReadCalls == ticks + (IF pc \in {"render", "sleep"} THEN 1 ELSE 0)

\* C3: the reads on the bus are one per call of read_scaled_data, each a
\* 14-byte read at register 0x3B of the reader's address; after a call main
\* is at the render with data None exactly when the transaction failed.
C3_OneReadPerCall ==
    Polling =>
        /\ Len(BusReads) = ReadCalls
        /\ \A i \in 1..Len(BusReads) :
               /\ BusReads[i].reg = 59
               /\ BusReads[i].n = 14
               /\ BusReads[i].addr = mpu.address
        /\ pc = "render" =>
               /\ bus[Len(bus)].op = "read"
               /\ data.none <=> ~bus[Len(bus)].ok

C3_Witness ==
    /\ pc = "render"
    /\ data.none
    /\ Len(BusReads) = 2
    /\ ~BusReads[2].ok

\* C4: a reader is bound to a candidate address that the scan enumerated and
\* whose handshake write is the last write on the bus and succeeded; every
\* earlier write failed; 0x68 bound means no write went to 0x69, and 0x69 is
\* bound only when 0x68 was not enumerated (one write) or rejected first.
C4_FirstAcceptedCandidateWins ==
    ~mpu.none =>
        LET w == BusWrites
            a == mpu.address
        IN  /\ a \in {104, 105}
            /\ Contains(devices, a)
            /\ Len(w) >= 1
            /\ w[Len(w)].addr = a
            /\ w[Len(w)].ok
            /\ \A i \in 1..(Len(w) - 1) : ~w[i].ok
            /\ a = 104 => Len(w) = 1
            /\ a = 105 =>
                   IF Contains(devices, 104)
                   THEN Len(w) = 2 /\ w[1].addr = 104
                   ELSE Len(w) = 1

C4_Witness ==
    /\ pc = "returned"
    /\ ~mpu.none
    /\ mpu.address = 104
    /\ devices = <<104, 105>>
    /\ Len(BusWrites) = 1

HasPrefix(s, p) == Len(s) >= Len(p) /\ SubSeq(s, 1, Len(p)) = p

HexVal(ch) == CHOOSE v \in 0..15 : HexDigits[v + 1] = ch

\* The addresses a reason of the form "<prefix>0xNN, 0xNN, ..." lists.
ListedAddrs(text, prefixLen) ==
    LET body == SubSeq(text, prefixLen + 1, Len(text))
        n == (Len(body) + 2) \div 6
    IN  [i \in 1..n |->
            16 * HexVal(body[6 * (i - 1) + 3]) + HexVal(body[6 * (i - 1) + 4])]

Discovered == pc \notin {"start", "i2c_init", "scan", "try_addr"}

NoCandidateEnumerated ==
    /\ devices # <<>>
    /\ \A i \in 1..Len(devices) : devices[i] \notin {104, 105}

\* C5: when the scan enumerated devices and none is 0x68 or 0x69, discovery
\* returns no reader, no handshake write was sent, and the reason is
\* "No MPU found. Devices: " followed by the enumerated addresses, all of
\* them and in the scan's order; for the scan <<0x10>> it ends in "0x10".
C5_UnsupportedListsDevices ==
    (Discovered /\ NoCandidateEnumerated) =>
        /\ mpu.none
        /\ ~error.none
        /\ BusWrites = <<>>
        /\ HasPrefix(error.text, StrNoMpu)
        /\ Len(error.text) = Len(StrNoMpu) + 6 * Len(devices) - 2
        /\ ListedAddrs(error.text, Len(StrNoMpu)) = devices
        /\ devices = <<16>> =>
               SubSeq(error.text, Len(StrNoMpu) + 1, Len(error.text))
                   = <<"0", "x", "1", "0">>

C5_Witness ==
    /\ pc = "returned"
    /\ devices = <<16, 32>>
    /\ mpu.none
    /\ ListedAddrs(error.text, Len(StrNoMpu)) = <<16, 32>>

ScanFoundNothing ==
    /\ bus # <<>>
    /\ bus[1] = BusScan(TRUE)
    /\ devices = <<>>

\* C6: when the scan succeeded with an empty result, discovery has returned
\* no reader with the reason "No I2C devices found", and the scan is the
\* only transaction on the bus: no handshake write was sent.
C6_EmptyScanNoDeviceFound ==
    ScanFoundNothing =>
        /\ Discovered
        /\ mpu.none
        /\ ~error.none
        /\ error.text = StrNoDevices
        /\ Len(bus) = 1

C6_Witness ==
    /\ ScanFoundNothing
    /\ pc = "wait_poll"
    /\ scr.body.msg = StrNoDevices

I2CInitRaised == discoveries >= 1 /\ i2c = "none"
ScanRaised == bus # <<>> /\ bus[1] = BusScan(FALSE)

\* C7: when I2C(...) raised, discovery has returned no reader with a reason
\* starting "I2C init failed: " and the bus saw no transaction at all; when
\* the scan raised, discovery has returned no reader with a reason starting
\* "I2C scan failed: " and the scan is the only transaction on the bus.
C7_TransportFailureEndsDiscovery ==
    /\ I2CInitRaised =>
           /\ Discovered
           /\ mpu.none
           /\ ~error.none
           /\ HasPrefix(error.text, StrI2CInitFailed)
           /\ bus = <<>>
    /\ ScanRaised =>
           /\ Discovered
           /\ mpu.none
           /\ ~error.none
           /\ HasPrefix(error.text, StrI2CScanFailed)
           /\ Len(bus) = 1

C7_Witness ==
    /\ I2CInitRaised
    /\ pc = "wait_sleep"
    /\ HasPrefix(scr.body.msg, StrI2CInitFailed)

\* C8: in both loops of main an iteration starts with the one poll of the
\* keys: the read comes after exactly that poll, the draw and the present
\* after the read, and only with G0 not among the polled keys; G0 among them
\* ends the iteration in reset with the poll as its only event, so the bus
\* has only the reads of the finished ticks and no frame was drawn since.
C8_ExitPolledFirst ==
    /\ pc \in {"poll", "wait_poll"} => iterLog = <<>>
    /\ pc \in {"read", "wait_sleep"} => iterLog = <<"poll">> /\ "G0" \notin keys
    /\ pc = "render" => iterLog = <<"poll", "read">> /\ "G0" \notin keys
    /\ pc = "sleep" => iterLog = <<"poll", "read", "draw", "show">> /\ "G0" \notin keys
    /\ pc = "reset" =>
           /\ iterLog = <<"poll">>
           /\ "G0" \in keys
           /\ Len(BusReads) = ticks
           /\ Len(renderHist) = ticks

C8_Witness ==
    /\ pc = "reset"
    /\ ~mpu.none
    /\ ticks = 2
    /\ "G0" \in keys

IsShow(e) == e = "show"
IsReadEvent(e) == e = "read"

\* Transactions of discovery: the scan and the handshake writes.
DiscoveryTxns == 1 + Len(BusWrites)

\* C9: in the polling loop the bus transactions beyond those of discovery are
\* the reads, one for each finished tick and at most one more for the running
\* iteration (none before its read); the running iteration has presented the
\* display at most once, and not before its read.
C9_OneTxnOneShowPerTick ==
    Polling =>
        /\ Len(bus) - DiscoveryTxns = Len(BusReads)
        /\ Len(BusReads) - ticks \in {0, 1}
        /\ Len(BusReads) - ticks = Len(SelectSeq(iterLog, IsReadEvent))
        /\ Len(SelectSeq(iterLog, IsShow)) <= 1
        /\ pc \in {"poll", "read", "render"} => Len(SelectSeq(iterLog, IsShow)) = 0

C9_Witness ==
    /\ pc = "sleep"
    /\ ticks = 1
    /\ data.none
    /\ Len(BusReads) = 2
    /\ Len(SelectSeq(iterLog, IsShow)) = 1

HasCall(op, region) ==
    \E i \in 1..Len(calls) : calls[i].op = op /\ calls[i].region = region

\* C10: the first StatusBar.draw after construction clears and draws both
\* regions: it issues the clear and the text of the time region and the
\* clear of the battery region, whatever the clock and the battery answer,
\* also when the bar has no battery source.
C10_FirstDrawDrawsEveryRegion ==
    nDraws = 1 =>
        /\ HasCall("fill_rect", "time")
        /\ HasCall("text", "time")
        /\ HasCall("fill_rect", "batt")

InRegion(region) == SelectSeq(calls, LAMBDA c : c.region = region)

\* A status_bar.draw runs in this step.
DrawStep == nDraws' = nDraws + 1

\* The display calls the step's draw issued in a region.
DrawnIn(region) == SelectSeq(calls', LAMBDA c : c.region = region)

\* The step's draw issued a drawing call (text or bitmap) of level l in the
\* battery region, after the clear.
BattDrawn(l) ==
    \E i \in 2..Len(DrawnIn("batt")) :
        /\ DrawnIn("batt")[i].op \in {"text", "bitmap"}
        /\ DrawnIn("batt")[i].level = l

\* The time region of a draw: nothing for the cached candidate, else clear,
\* text of the candidate, and the candidate cached.
TimeRegionRule ==
    IF cand'.time = sb.last_time_str
    THEN /\ DrawnIn("time") = <<>>
         /\ sb'.last_time_str = sb.last_time_str
    ELSE /\ DrawnIn("time") = <<FillRect("time"), Text("time", cand'.time)>>
         /\ sb'.last_time_str = cand'.time

\* C11 as stated: in every status_bar.draw, for each of the two regions, a
\* candidate equal to the cached value issues no call in the region and
\* keeps the cache, and a differing candidate issues the region's clear and
\* a drawing call of the candidate and caches the candidate.
C11_Original ==
    [][DrawStep =>
          /\ TimeRegionRule
          /\ IF cand'.batt = sb.last_batt_level
             THEN /\ DrawnIn("batt") = <<>>
                  /\ sb'.last_batt_level = sb.last_batt_level
             ELSE /\ Len(DrawnIn("batt")) >= 2
                  /\ DrawnIn("batt")[1] = FillRect("batt")
                  /\ BattDrawn(cand'.batt)
                  /\ sb'.last_batt_level = cand'.batt]_vars

\* C11 amended: as above, except that a differing battery candidate of -1
\* (no level available) issues the clear of the battery region alone, with
\* no drawing call; a differing level >= 0 issues the clear and a drawing
\* call of that level.
C11_RedrawOnlyOnChange ==
    [][DrawStep =>
          /\ TimeRegionRule
          /\ IF cand'.batt = sb.last_batt_level
             THEN /\ DrawnIn("batt") = <<>>
                  /\ sb'.last_batt_level = sb.last_batt_level
             ELSE /\ Len(DrawnIn("batt")) >= 1
                  /\ DrawnIn("batt")[1] = FillRect("batt")
                  /\ IF cand'.batt >= 0
                     THEN BattDrawn(cand'.batt)
                     ELSE Len(DrawnIn("batt")) = 1
                  /\ sb'.last_batt_level = cand'.batt]_vars

\* The third draw: its time candidate was the cached one (nothing issued for
\* the time region) and its battery candidate changed to a level (clear and
\* drawing call issued).
C11_Witness ==
    /\ nDraws = 3
    /\ InRegion("time") = <<>>
    /\ cand.time = sb.last_time_str
    /\ cand.batt = 1
    /\ Len(InRegion("batt")) >= 2
    /\ InRegion("batt")[1] = FillRect("batt")

\* The calls of a draw result d that fall in a region.
CallsIn(d, region) == SelectSeq(d.calls, LAMBDA c : c.region = region)

CacheLevels == Levels \cup {NoLevel}
CacheTimes == {<<>>} \cup {SBTimeStr(sb, c) : c \in Clocks}

\* C12: for the bar in any reachable state and any answers of the clock and
\* the battery, the calls issued in the time region and the time cache after
\* the draw are the same when the battery side (cached level, battery source,
\* icon, battery answer, bitmap outcome) is replaced by any other; the calls
\* issued in the battery region and the battery cache after the draw are the
\* same when the time side (cached string, clock answer) is replaced by any
\* other; and every call of the time part lies in the time region, every
\* call of the battery part in the battery region.
C12_RegionsIndependent ==
    \A clock \in Clocks, batt \in BattReads, bitmapOk \in BOOLEAN :
        LET d == StatusBarDraw(sb, clock, batt, bitmapOk)
        IN  /\ \A l \in CacheLevels, battery \in BOOLEAN, icon \in BOOLEAN,
                  batt2 \in BattReads, bitmapOk2 \in BOOLEAN :
                   LET s2 == [sb EXCEPT !.last_batt_level = l, !.battery = battery,
                                        !.battery_icon = icon]
                       d2 == StatusBarDraw(s2, clock, batt2, bitmapOk2)
                   IN  /\ CallsIn(d2, "time") = CallsIn(d, "time")
                       /\ d2.sb.last_time_str = d.sb.last_time_str
            /\ \A t \in CacheTimes, clock2 \in Clocks :
                   LET s3 == [sb EXCEPT !.last_time_str = t]
                       d3 == StatusBarDraw(s3, clock2, batt, bitmapOk)
                   IN  /\ CallsIn(d3, "batt") = CallsIn(d, "batt")
                       /\ d3.sb.last_batt_level = d.sb.last_batt_level
            /\ CallsIn(d, "time") \o CallsIn(d, "batt") = d.calls
            /\ CallsIn(d, "time") = SBTimeCalls(sb, d.time_str)
            /\ CallsIn(d, "batt") = SBBattCalls(sb, d.batt_level, bitmapOk)

\* A draw that repainted the time region and left the battery region alone.
C12_Witness ==
    /\ pc = "bar"
    /\ nDraws = 2
    /\ InRegion("time") # <<>>
    /\ InRegion("batt") = <<>>
    /\ sb.last_batt_level = 1

\* The high bytes' offsets (1-based) of the six pairs a sample is read from.
PairAt == <<1, 3, 5, 9, 11, 13>>

Decoded == pc = "decoded" /\ ~data.none

\* C13: every reading v decoded from a pair (high, low) of bytes is the
\* two's-complement value of the word w = (high << 8) | low: v lies in
\* -32768..32767, v is w or w - 65536, v is w exactly when w < 0x8000, and
\* 0x7FFF, 0x8000, 0xFFFF, 0x0000 give 32767, -32768, -1, 0; the read of
\* any block returns a sample.
C13_TwosComplement ==
    /\ (pc = "decoded" /\ bus[Len(bus)].ok) => ~data.none
    /\ Decoded =>
           \A k \in 1..6 :
               LET high == mpu.buffer[PairAt[k]]
                   low == mpu.buffer[PairAt[k] + 1]
                   w == high * 256 + low
                   v == data.raw[k]
               IN  /\ v \in -32768..32767
                   /\ (v - w) % 65536 = 0
                   /\ (v = w) <=> (w < 32768)
                   /\ (v < 0) <=> (high >= 128)
                   /\ (high = 127 /\ low = 255) => v = 32767
                   /\ (high = 128 /\ low = 0) => v = -32768
                   /\ (high = 255 /\ low = 255) => v = -1
                   /\ (high = 0 /\ low = 0) => v = 0

C13_Witness ==
    /\ Decoded
    /\ mpu.buffer[1] = 128
    /\ mpu.buffer[2] = 0
    /\ data.raw[1] = -32768

\* v as a 16-bit two's-complement word, high byte first.
EncodeInt16(v) ==
    LET u == v % 65536
    IN  <<u \div 256, u % 256>>

\* C14: re-encoding each decoded reading as a 16-bit two's-complement
\* high/low pair gives back the pair of bytes it was decoded from.
C14_RoundTrip ==
    Decoded =>
        \A k \in 1..6 :
            EncodeInt16(data.raw[k])
                = <<mpu.buffer[PairAt[k]], mpu.buffer[PairAt[k] + 1]>>

C14_Witness ==
    /\ Decoded
    /\ mpu.buffer[1] = 255
    /\ mpu.buffer[2] = 254
    /\ data.raw[1] = -2
    /\ EncodeInt16(data.raw[1]) = <<255, 254>>

\* The signed word at offsets (i, i + 1) of the code, by its sign bit.
SignedWord(b, i) == b[i + 1] * 256 + b[i + 2] - 65536 * (b[i + 1] \div 128)

\* C15: the sample is accel X, Y, Z from the pairs at offsets (0,1), (2,3),
\* (4,5) and gyro X, Y, Z from the pairs at (8,9), (10,11), (12,13), and a
\* block that differs only in bytes 6 and 7 decodes to the same sample.
C15_BlockLayout ==
    Decoded =>
        /\ data.raw = <<SignedWord(mpu.buffer, 0), SignedWord(mpu.buffer, 2),
                        SignedWord(mpu.buffer, 4), SignedWord(mpu.buffer, 8),
                        SignedWord(mpu.buffer, 10), SignedWord(mpu.buffer, 12)>>
        /\ \A t6 \in {0, 1, 128, 255}, t7 \in {0, 1, 128, 255} :
               ReadRawData(mpu, TRUE, [mpu.buffer EXCEPT ![7] = t6, ![8] = t7]).result
                   = data

C15_Witness ==
    /\ Decoded
    /\ mpu.buffer[7] = 18
    /\ mpu.buffer[8] = 52
    /\ mpu.buffer[1] = 1
    /\ mpu.buffer[2] = 2
    /\ data.raw = <<258, 514, 259, 770, 260, 1029>>

\* C16: once try_init_imu has returned, main holds either a reader and no
\* reason, or no reader and a reason that is a non-empty string; the error
\* screen shows the first 28 characters of that string.
C16_HandleOrReason ==
    /\ Discovered =>
           /\ mpu.none <=> ~error.none
           /\ mpu.none => Len(error.text) > 0
    /\ scr.body.kind = "error" =>
           /\ ~error.none
           /\ scr.body.msg = SubSeq(error.text, 1, Len(scr.body.msg))
           /\ Len(scr.body.msg) = (IF Len(error.text) < 28 THEN Len(error.text) ELSE 28)

C16_Witness ==
    /\ pc = "wait_poll"
    /\ mpu.none
    /\ Len(error.text) > 28
    /\ Len(scr.body.msg) = 28

\* The wake-up write that must precede the reads of address a.
WakeUp(a) == BusWrite(a, 107, 0, TRUE)

\* With a reader bound: its wake-up write is on the bus and succeeded, the
\* 100 ms delay was slept, every read is addressed to the bound address and
\* comes after the wake-up write, and discovery ran once.
BoundAndAwake ==
    /\ slept = 100
    /\ discoveries = 1
    /\ \E i \in 1..Len(bus) :
           /\ bus[i] = WakeUp(mpu.address)
           /\ \A j \in 1..Len(bus) :
                  bus[j].op = "read" => (j > i /\ bus[j].addr = mpu.address)

\* C17: in every step, a reader once bound stays bound to the same address,
\* and with a reader bound BoundAndAwake holds after the step; without a
\* reader the bus has no read.
C17_ReadsAfterWakeUp ==
    [][/\ ~mpu.none => (~mpu'.none /\ mpu'.address = mpu.address)
       /\ ~mpu'.none => BoundAndAwake'
       /\ mpu'.none => BusReads' = <<>>
       /\ discoveries' <= 1]_vars

C17_Witness ==
    /\ pc = "sleep"
    /\ ticks = 1
    /\ mpu.address = 105
    /\ bus = <<BusScan(TRUE), BusWrite(104, 107, 0, FALSE), WakeUp(105),
               BusRead(105, 59, 14, TRUE), BusRead(105, 59, 14, FALSE)>>

\* The candidate addresses the scan enumerated, in priority order.
EnumeratedCandidates ==
    SelectSeq(<<104, 105>>, LAMBDA a : Contains(devices, a))

\* C18: once discovery is over, the handshake writes went to the enumerated
\* candidates in priority order, each one after the rejected ones before
\* it, up to the first that accepted; the reader is bound exactly when the
\* last write succeeded, and when every enumerated candidate rejected there
\* is no reader and the reason lists the enumerated addresses.
C18_RejectedCandidateSkipped ==
    (Discovered /\ EnumeratedCandidates # <<>>) =>
        LET w == BusWrites
            c == EnumeratedCandidates
        IN  /\ Len(w) >= 1
            /\ Len(w) <= Len(c)
            /\ \A i \in 1..Len(w) : w[i].addr = c[i]
            /\ \A i \in 1..(Len(w) - 1) : ~w[i].ok
            /\ ~w[Len(w)].ok => Len(w) = Len(c)
            /\ IF w[Len(w)].ok
               THEN ~mpu.none /\ mpu.address = w[Len(w)].addr
               ELSE /\ mpu.none
                    /\ HasPrefix(error.text, StrNoMpu)
                    /\ ListedAddrs(error.text, Len(StrNoMpu)) = devices

C18_Witness ==
    /\ pc = "returned"
    /\ devices = <<104, 105>>
    /\ BusWrites = <<BusWrite(104, 107, 0, FALSE), BusWrite(105, 107, 0, TRUE)>>
    /\ mpu.address = 105

\* C19: whenever the display has been presented, a status-bar region whose
\* cached value is a drawn value (a time string, a level >= 0) shows that
\* value on the screen.  (Every step that changes the screen ends with
\* display.show(), so every state after the first frame is a presented one.)
C19_CacheMatchesScreen ==
    nDraws >= 1 =>
        /\ sb.last_time_str # <<>> => scr.time.text = sb.last_time_str
        /\ sb.last_batt_level >= 0 => scr.batt.level = sb.last_batt_level

====
